---- MODULE Spec2Model ----
(***************************************************************************)
(* Tic Tac Toe with an AI opponent (src/script.js, class TicTacToeGame).   *)
(* The state is this.state of the game object plus the makeAIMove          *)
(* callbacks that setTimeout holds; every handler of the class is one      *)
(* action.  The move policies share this.state.board as scratch space, so  *)
(* each policy is modelled as returning the board it leaves behind next to *)
(* the value it returns.                                                   *)
(***************************************************************************)
EXTENDS Integers, Sequences, FiniteSets, TLC

VARIABLES
  board,          \* this.state.board: 0..8 -> PLAYER_X, PLAYER_O or Null
  moveCount,      \* this.state.moveCount
  currentPlayer,  \* this.state.currentPlayer
  gameState,      \* this.state.gameState
  humanPlayer,    \* this.state.humanPlayer
  aiPlayer,       \* this.state.aiPlayer
  difficulty,     \* this.state.difficulty
  scores,         \* this.state.scores: [x, o, d]
  timers          \* number of pending setTimeout(() => this.makeAIMove()) callbacks

vars == <<board, moveCount, currentPlayer, gameState, humanPlayer, aiPlayer,
          difficulty, scores, timers>>

(***************************************************************************)
(* Bounds of the model.                                                    *)
(***************************************************************************)
MaxScore == 1     \* a score counter is not incremented beyond this
MaxTimers == 2    \* at most this many makeAIMove callbacks are pending

(***************************************************************************)
(* Constants of the constructor.                                           *)
(***************************************************************************)
PLAYER_X == "x"
PLAYER_O == "o"
Null == "null"      \* an empty cell (null in the array)
NoIndex == -1       \* null where the code returns it in place of a cell index
PLAYING == "PLAYING"
X_WINS == "X_WINS"
O_WINS == "O_WINS"
DRAW == "DRAW"
GAME_STATES == {PLAYING, X_WINS, O_WINS, DRAW}
WINNING_COMBINATIONS ==
  << <<0, 1, 2>>, <<3, 4, 5>>, <<6, 7, 8>>,
     <<0, 3, 6>>, <<1, 4, 7>>, <<2, 5, 8>>,
     <<0, 4, 8>>, <<2, 4, 6>> >>
CENTER == 4
CORNERS == <<0, 2, 6, 8>>
EDGES == <<1, 3, 5, 7>>
Difficulties == {"easy", "medium", "hard"}
Infinity == 1000     \* stands for Infinity: every score lies in -10..10
Cells == <<0, 1, 2, 3, 4, 5, 6, 7, 8>>
EmptyBoard == [i \in 0..8 |-> Null]

Range(s) == {s[k] : k \in 1..Len(s)}

(***************************************************************************)
(* Evaluator.                                                              *)
(***************************************************************************)
\* the cells of each combination, as sets: some and every do not depend on order
ComboCells == {Range(WINNING_COMBINATIONS[c]) : c \in 1..Len(WINNING_COMBINATIONS)}

\* faulty variant: the two diagonals are missing from the table
checkForWin_NoDiagonals(player, b) ==
  \E c \in 1..6 : \A index \in Range(WINNING_COMBINATIONS[c]) : b[index] = player

checkForWin(player, b) ==
  \E combo \in ComboCells : \A index \in combo : b[index] = player

\* faulty variant: a full board is never reported as a draw
checkForDraw_Never(b) == FALSE

checkForDraw(b) ==
  /\ \A i \in 0..8 : b[i] # Null
  /\ ~checkForWin(PLAYER_X, b)
  /\ ~checkForWin(PLAYER_O, b)

\* faulty variant: the test for an empty cell is missing
getWinningCombination_NoNullTest(b) ==
  LET hits == SelectSeq(WINNING_COMBINATIONS,
                        LAMBDA combo : \A k \in 1..3 : b[combo[k]] = b[combo[1]])
  IN IF Len(hits) = 0 THEN << >> ELSE hits[1]

\* WINNING_COMBINATIONS.find(...): the first line whose cells all hold the mark
\* of its first cell; << >> stands for undefined
getWinningCombination(b) ==
  LET hits == SelectSeq(WINNING_COMBINATIONS,
                        LAMBDA combo : \A k \in 1..3 :
                          b[combo[k]] # Null /\ b[combo[k]] = b[combo[1]])
  IN IF Len(hits) = 0 THEN << >> ELSE hits[1]

getEmptyIndices(b) == SelectSeq(Cells, LAMBDA i : b[i] = Null)

\* faulty variant: the human's lines are not looked at
evaluateBoard_IgnoresHuman(b, ai, human) ==
  IF checkForWin(ai, b) THEN 10 ELSE 0

evaluateBoard(b, ai, human) ==
  IF checkForWin(ai, b) THEN 10
  ELSE IF checkForWin(human, b) THEN -10
  ELSE 0

Max(a, b) == IF a >= b THEN a ELSE b
Min(a, b) == IF a <= b THEN a ELSE b

(***************************************************************************)
(* Search player: minimax with alpha-beta pruning.  The array is shared,   *)
(* so a call returns the board it leaves (field board) with its result.    *)
(***************************************************************************)
RECURSIVE minimax(_, _, _, _, _, _, _, _)
RECURSIVE minimaxLoop(_, _, _, _, _, _, _, _, _, _, _)

minimaxPlace(b, index, player) == [b EXCEPT ![index] = player]

minimaxRevert(b, index) == [b EXCEPT ![index] = Null]

minimaxPrune(alpha, beta) == beta <= alpha

\* faulty variant: a win scores the same at every depth
scoreWin_NoDepth(score, depth) == score

\* the score of a board the engine has won, and of one the human has won
scoreWin(score, depth) == score - depth

\* faulty variant: a loss scores the same at every depth
scoreLoss_NoDepth(score, depth) == score

scoreLoss(score, depth) == score + depth

\* alpha = Math.max(alpha, result.score) on the maximizing branch only
updateAlpha(isMaximizing, alpha, score) ==
  IF isMaximizing THEN Max(alpha, score) ELSE alpha

\* faulty variant: beta is lowered on the maximizing branch too
updateBeta_Always(isMaximizing, beta, score) == Min(beta, score)

\* beta = Math.min(beta, result.score) on the minimizing branch only
updateBeta(isMaximizing, beta, score) ==
  IF isMaximizing THEN beta ELSE Min(beta, score)

\* faulty variant: the search is cut after the third ply
minimaxDepthGuard_Shallow(depth) == depth > 2

minimaxDepthGuard(depth) == depth > 8

\* faulty variant: a later cell with an equal score replaces the best move
RECURSIVE minimaxLoop_KeepsLast(_, _, _, _, _, _, _, _, _, _, _)
minimaxLoop_KeepsLast(b, player, isMaximizing, depth, alpha, beta, ai, human, emptyIndices, k, bestMove) ==
  IF k > Len(emptyIndices) THEN [score |-> bestMove.score, index |-> bestMove.index, board |-> b]
  ELSE
    LET index == emptyIndices[k]
        result == minimax(minimaxPlace(b, index, player),
                          IF isMaximizing THEN human ELSE ai,
                          ~isMaximizing, depth + 1, alpha, beta, ai, human)
        b2 == minimaxRevert(result.board, index)
        better == IF isMaximizing THEN result.score >= bestMove.score
                                  ELSE result.score <= bestMove.score
        newBest == IF better THEN [score |-> result.score, index |-> index]
                             ELSE bestMove
        newAlpha == updateAlpha(isMaximizing, alpha, result.score)
        newBeta == updateBeta(isMaximizing, beta, result.score)
    IN IF minimaxPrune(newAlpha, newBeta)
         THEN [score |-> newBest.score, index |-> newBest.index, board |-> b2]
         ELSE minimaxLoop_KeepsLast(b2, player, isMaximizing, depth, newAlpha, newBeta,
                          ai, human, emptyIndices, k + 1, newBest)

minimaxLoop(b, player, isMaximizing, depth, alpha, beta, ai, human, emptyIndices, k, bestMove) ==
  IF k > Len(emptyIndices) THEN [score |-> bestMove.score, index |-> bestMove.index, board |-> b]
  ELSE
    LET index == emptyIndices[k]
        result == minimax(minimaxPlace(b, index, player),
                          IF isMaximizing THEN human ELSE ai,
                          ~isMaximizing, depth + 1, alpha, beta, ai, human)
        b2 == minimaxRevert(result.board, index)
        better == IF isMaximizing THEN result.score > bestMove.score
                                  ELSE result.score < bestMove.score
        newBest == IF better THEN [score |-> result.score, index |-> index]
                             ELSE bestMove
        newAlpha == updateAlpha(isMaximizing, alpha, result.score)
        newBeta == updateBeta(isMaximizing, beta, result.score)
    IN IF minimaxPrune(newAlpha, newBeta)
         THEN [score |-> newBest.score, index |-> newBest.index, board |-> b2]
         ELSE minimaxLoop(b2, player, isMaximizing, depth, newAlpha, newBeta,
                          ai, human, emptyIndices, k + 1, newBest)

minimax(b, player, isMaximizing, depth, alpha, beta, ai, human) ==
  LET score == evaluateBoard(b, ai, human) IN
  IF score = 10 THEN [score |-> scoreWin(score, depth), index |-> NoIndex, board |-> b]
  ELSE IF score = -10 THEN [score |-> scoreLoss(score, depth), index |-> NoIndex, board |-> b]
  ELSE
    LET emptyIndices == getEmptyIndices(b) IN
    IF Len(emptyIndices) = 0 THEN [score |-> 0, index |-> NoIndex, board |-> b]
    ELSE IF minimaxDepthGuard(depth) THEN [score |-> 0, index |-> NoIndex, board |-> b]
    ELSE minimaxLoop(b, player, isMaximizing, depth, alpha, beta, ai, human,
                     emptyIndices, 1,
                     [score |-> IF isMaximizing THEN -Infinity ELSE Infinity,
                      index |-> emptyIndices[1]])

getOptimalMove(b, ai, human) ==
  minimax(b, ai, TRUE, 0, -Infinity, Infinity, ai, human)

(***************************************************************************)
(* The v3.0 search player (src/unnamed/part_003): minimax without pruning. *)
(* It collects every move of a ply and reduces to the first best one.  The *)
(* mark it places is removed again before the next cell is tried, so each  *)
(* child is given the parent's board with the one mark added.              *)
(***************************************************************************)
RECURSIVE minimaxV3(_, _, _, _, _, _)
RECURSIVE minimaxV3Moves(_, _, _, _, _, _, _, _)
RECURSIVE reduceMoves(_, _, _, _)

\* moves.reduce((best, move) => move.score > best.score ? move : best)
reduceMoves(moves, isMaximizing, k, best) ==
  IF k > Len(moves) THEN best
  ELSE reduceMoves(moves, isMaximizing, k + 1,
                   IF (IF isMaximizing THEN moves[k].score > best.score
                                       ELSE moves[k].score < best.score)
                     THEN moves[k] ELSE best)

minimaxV3Moves(b, player, isMaximizing, depth, ai, human, emptyIndices, k) ==
  IF k > Len(emptyIndices) THEN << >>
  ELSE << [index |-> emptyIndices[k],
           score |-> minimaxV3([b EXCEPT ![emptyIndices[k]] = player],
                               IF isMaximizing THEN human ELSE ai,
                               ~isMaximizing, depth + 1, ai, human).score] >>
       \o minimaxV3Moves(b, player, isMaximizing, depth, ai, human, emptyIndices, k + 1)

minimaxV3(b, player, isMaximizing, depth, ai, human) ==
  LET score == evaluateBoard(b, ai, human) IN
  IF score = 10 THEN [score |-> score - depth, index |-> NoIndex]
  ELSE IF score = -10 THEN [score |-> score + depth, index |-> NoIndex]
  ELSE
    LET emptyIndices == getEmptyIndices(b) IN
    IF Len(emptyIndices) = 0 THEN [score |-> 0, index |-> NoIndex]
    ELSE LET moves == minimaxV3Moves(b, player, isMaximizing, depth, ai, human,
                                     emptyIndices, 1)
         IN reduceMoves(moves, isMaximizing, 2, moves[1])

(***************************************************************************)
(* Heuristic player: the rule cascade of getStrategicMove.                 *)
(***************************************************************************)
playerCount(b, combo, player) == Cardinality({k \in 1..3 : b[combo[k]] = player})

emptyCount(b, combo) == Cardinality({k \in 1..3 : b[combo[k]] = Null})

\* positions.indexOf(null): the first place of the line that is empty
indexOfNull(b, combo) == CHOOSE k \in 1..3 : b[combo[k]] = Null /\ \A j \in 1..(k - 1) : b[combo[j]] # Null

\* faulty variant: the first cell of the line is returned instead of its empty cell
findWinningMove_FirstCell(b, player) ==
  LET hits == SelectSeq(WINNING_COMBINATIONS,
                        LAMBDA combo : playerCount(b, combo, player) = 2 /\ emptyCount(b, combo) = 1)
  IN IF Len(hits) = 0 THEN NoIndex ELSE hits[1][1]

\* faulty variant: the last matching line of the table is taken instead of the first
findWinningMove_LastLine(b, player) ==
  LET hits == SelectSeq(WINNING_COMBINATIONS,
                        LAMBDA combo : playerCount(b, combo, player) = 2 /\ emptyCount(b, combo) = 1)
  IN IF Len(hits) = 0 THEN NoIndex ELSE hits[Len(hits)][indexOfNull(b, hits[Len(hits)])]

findWinningMove(b, player) ==
  LET hits == SelectSeq(WINNING_COMBINATIONS,
                        LAMBDA combo : playerCount(b, combo, player) = 2 /\ emptyCount(b, combo) = 1)
  IN IF Len(hits) = 0 THEN NoIndex ELSE hits[1][indexOfNull(b, hits[1])]

\* faulty variant: one line with two marks is taken for a fork
forkThreshold_One(winningMoves) == winningMoves >= 1

forkThreshold(winningMoves) == winningMoves >= 2

RECURSIVE findForkLoop(_, _, _, _)
findForkLoop(b, player, emptyIndices, k) ==
  IF k > Len(emptyIndices) THEN [index |-> NoIndex, board |-> b]
  ELSE
    LET index == emptyIndices[k]
        b1 == [b EXCEPT ![index] = player]
        winningMoves == Cardinality({c \in 1..Len(WINNING_COMBINATIONS) :
                           /\ playerCount(b1, WINNING_COMBINATIONS[c], player) = 2
                           /\ emptyCount(b1, WINNING_COMBINATIONS[c]) = 1})
        b2 == [b1 EXCEPT ![index] = Null]
    IN IF forkThreshold(winningMoves) THEN [index |-> index, board |-> b2]
       ELSE findForkLoop(b2, player, emptyIndices, k + 1)

findForkMove(b, player) == findForkLoop(b, player, getEmptyIndices(b), 1)

\* faulty variant: the accepted candidate's tentative mark stays on the board
findBlockForkAccept_NoRevert(b, index) == [index |-> index, board |-> b]

\* the accepted candidate: the tentative mark is removed, the index returned
findBlockForkAccept(b, index) == [index |-> index, board |-> [b EXCEPT ![index] = Null]]

\* faulty variant: the first candidate that makes a threat is accepted, the
\* opponent's remaining forks are not looked at
RECURSIVE findBlockForkLoop_AnyThreat(_, _, _, _, _)
findBlockForkLoop_AnyThreat(b, ai, human, emptyIndices, k) ==
  IF k > Len(emptyIndices) THEN [index |-> NoIndex, board |-> b]
  ELSE
    LET index == emptyIndices[k]
        b1 == [b EXCEPT ![index] = ai]
        forcedDefense == findWinningMove(b1, ai)
    IN IF forcedDefense # NoIndex
       THEN findBlockForkAccept(b1, index)
       ELSE findBlockForkLoop_AnyThreat([b1 EXCEPT ![index] = Null], ai, human,
                                        emptyIndices, k + 1)

RECURSIVE findBlockForkLoop(_, _, _, _, _)
findBlockForkLoop(b, ai, human, emptyIndices, k) ==
  IF k > Len(emptyIndices) THEN [index |-> NoIndex, board |-> b]
  ELSE
    LET index == emptyIndices[k]
        b1 == [b EXCEPT ![index] = ai]
        forcedDefense == findWinningMove(b1, ai)
    IN IF forcedDefense # NoIndex
       THEN LET b2 == [b1 EXCEPT ![forcedDefense] = human]
                remainingForks == findForkMove(b2, human)
                b3 == [remainingForks.board EXCEPT ![forcedDefense] = Null]
            IN IF remainingForks.index = NoIndex
               THEN findBlockForkAccept(b3, index)
               ELSE findBlockForkLoop([b3 EXCEPT ![index] = Null], ai, human,
                                      emptyIndices, k + 1)
       ELSE findBlockForkLoop([b1 EXCEPT ![index] = Null], ai, human,
                              emptyIndices, k + 1)

\* faulty variant: the opponent's fork cell is not looked for
findBlockForkMove_LoopOnly(b, ai, human) ==
  findBlockForkLoop(b, ai, human, getEmptyIndices(b), 1)

\* faulty variant: the block-fork rule never fires
findBlockForkMove_Never(b, ai, human) == [index |-> NoIndex, board |-> b]

findBlockForkMove(b, ai, human) ==
  LET humanFork == findForkMove(b, human) IN
  IF humanFork.index # NoIndex THEN humanFork
  ELSE findBlockForkLoop(humanFork.board, ai, human,
                         getEmptyIndices(humanFork.board), 1)

opposites == << <<0, 8>>, <<2, 6>>, <<6, 2>>, <<8, 0>> >>

\* faulty variant: the last matching pair is taken instead of the first
findOppositeCorner_LastPair(b, human) ==
  LET hits == SelectSeq(opposites, LAMBDA p : b[p[1]] = human /\ b[p[2]] = Null)
  IN IF Len(hits) = 0 THEN NoIndex ELSE hits[Len(hits)][2]

findOppositeCorner(b, human) ==
  LET hits == SelectSeq(opposites, LAMBDA p : b[p[1]] = human /\ b[p[2]] = Null)
  IN IF Len(hits) = 0 THEN NoIndex ELSE hits[1][2]

\* faulty variant: no random number is drawn, the first element is taken
randomElement_First(arr) == IF Len(arr) = 0 THEN {} ELSE {arr[1]}

\* arr[Math.floor(Math.random() * arr.length)]: any element of arr
randomElement(arr) == Range(arr)

\* faulty variant: the block rule comes before the win rule
getStrategicMove_BlockFirst(b, emptyIndices, ai, human) ==
  LET winMove == findWinningMove(b, ai)
      blockMove == findWinningMove(b, human)
      forkMove == findForkMove(b, ai)
      blockForkMove == findBlockForkMove(forkMove.board, ai, human)
      bEnd == blockForkMove.board
      oppositeCorner == findOppositeCorner(bEnd, human)
      availableCorners == SelectSeq(CORNERS, LAMBDA c : c \in Range(emptyIndices))
      availableEdges == SelectSeq(EDGES, LAMBDA e : e \in Range(emptyIndices))
  IN IF blockMove # NoIndex THEN [moves |-> {blockMove}, board |-> b]
     ELSE IF winMove # NoIndex THEN [moves |-> {winMove}, board |-> b]
     ELSE IF forkMove.index # NoIndex THEN [moves |-> {forkMove.index}, board |-> forkMove.board]
     ELSE IF blockForkMove.index # NoIndex THEN [moves |-> {blockForkMove.index}, board |-> bEnd]
     ELSE IF CENTER \in Range(emptyIndices) THEN [moves |-> {CENTER}, board |-> bEnd]
     ELSE IF oppositeCorner # NoIndex /\ oppositeCorner \in Range(emptyIndices)
       THEN [moves |-> {oppositeCorner}, board |-> bEnd]
     ELSE IF Len(availableCorners) > 0 THEN [moves |-> randomElement(availableCorners), board |-> bEnd]
     ELSE IF Len(availableEdges) > 0 THEN [moves |-> randomElement(availableEdges), board |-> bEnd]
     ELSE [moves |-> randomElement(emptyIndices), board |-> bEnd]

\* faulty variant: the center rule is missing from the cascade
getStrategicMove_NoCenterRule(b, emptyIndices, ai, human) ==
  LET winMove == findWinningMove(b, ai)
      blockMove == findWinningMove(b, human)
      forkMove == findForkMove(b, ai)
      blockForkMove == findBlockForkMove(forkMove.board, ai, human)
      bEnd == blockForkMove.board
      oppositeCorner == findOppositeCorner(bEnd, human)
      availableCorners == SelectSeq(CORNERS, LAMBDA c : c \in Range(emptyIndices))
      availableEdges == SelectSeq(EDGES, LAMBDA e : e \in Range(emptyIndices))
  IN IF winMove # NoIndex THEN [moves |-> {winMove}, board |-> b]
     ELSE IF blockMove # NoIndex THEN [moves |-> {blockMove}, board |-> b]
     ELSE IF forkMove.index # NoIndex THEN [moves |-> {forkMove.index}, board |-> forkMove.board]
     ELSE IF blockForkMove.index # NoIndex THEN [moves |-> {blockForkMove.index}, board |-> bEnd]
     ELSE IF oppositeCorner # NoIndex /\ oppositeCorner \in Range(emptyIndices)
       THEN [moves |-> {oppositeCorner}, board |-> bEnd]
     ELSE IF Len(availableCorners) > 0 THEN [moves |-> randomElement(availableCorners), board |-> bEnd]
     ELSE IF Len(availableEdges) > 0 THEN [moves |-> randomElement(availableEdges), board |-> bEnd]
     ELSE [moves |-> randomElement(emptyIndices), board |-> bEnd]

\* The set of indices getStrategicMove can return (field moves: one index where
\* no random number is drawn) and the board it leaves.
getStrategicMove(b, emptyIndices, ai, human) ==
  LET winMove == findWinningMove(b, ai)
      blockMove == findWinningMove(b, human)
      forkMove == findForkMove(b, ai)
      blockForkMove == findBlockForkMove(forkMove.board, ai, human)
      bEnd == blockForkMove.board
      oppositeCorner == findOppositeCorner(bEnd, human)
      availableCorners == SelectSeq(CORNERS, LAMBDA c : c \in Range(emptyIndices))
      availableEdges == SelectSeq(EDGES, LAMBDA e : e \in Range(emptyIndices))
  IN IF winMove # NoIndex THEN [moves |-> {winMove}, board |-> b]
     ELSE IF blockMove # NoIndex THEN [moves |-> {blockMove}, board |-> b]
     ELSE IF forkMove.index # NoIndex THEN [moves |-> {forkMove.index}, board |-> forkMove.board]
     ELSE IF blockForkMove.index # NoIndex THEN [moves |-> {blockForkMove.index}, board |-> bEnd]
     ELSE IF CENTER \in Range(emptyIndices) THEN [moves |-> {CENTER}, board |-> bEnd]
     ELSE IF oppositeCorner # NoIndex /\ oppositeCorner \in Range(emptyIndices)
       THEN [moves |-> {oppositeCorner}, board |-> bEnd]
     ELSE IF Len(availableCorners) > 0 THEN [moves |-> randomElement(availableCorners), board |-> bEnd]
     ELSE IF Len(availableEdges) > 0 THEN [moves |-> randomElement(availableEdges), board |-> bEnd]
     ELSE [moves |-> randomElement(emptyIndices), board |-> bEnd]

(***************************************************************************)
(* Casual player: the set of indices getRandomMove can return, over both   *)
(* outcomes of Math.random() < 0.3 and every draw of the index.            *)
(***************************************************************************)
\* faulty variant: the preferred cells are taken whenever there is one
getRandomMove_AlwaysPreferred(emptyIndices) ==
  LET preferredMoves == SelectSeq(emptyIndices,
                                  LAMBDA index : index = CENTER \/ index \in Range(CORNERS))
  IN IF Len(preferredMoves) > 0 THEN randomElement(preferredMoves)
     ELSE randomElement(emptyIndices)

getRandomMove(emptyIndices) ==
  LET preferredMoves == SelectSeq(emptyIndices,
                                  LAMBDA index : index = CENTER \/ index \in Range(CORNERS))
  IN (IF Len(preferredMoves) > 0 THEN randomElement(preferredMoves) ELSE {})
       \cup randomElement(emptyIndices)

(***************************************************************************)
(* Move selector.                                                          *)
(***************************************************************************)
\* faulty variant: the label of the hard case does not match, so hard takes the default
getBestAIMove_HardMislabelled(b, diff, ai, human) ==
  LET emptyIndices == getEmptyIndices(b) IN
  IF Len(emptyIndices) = 0 THEN [moves |-> {NoIndex}, board |-> b]
  ELSE IF diff = "easy" THEN [moves |-> getRandomMove(emptyIndices), board |-> b]
  ELSE IF diff = "medium" THEN getStrategicMove(b, emptyIndices, ai, human)
  ELSE [moves |-> getRandomMove(emptyIndices), board |-> b]

\* faulty variant: the policies are called without the check for an empty list
getBestAIMove_NoEmptyCheck(b, diff, ai, human) ==
  LET emptyIndices == getEmptyIndices(b) IN
  IF diff = "medium" THEN getStrategicMove(b, emptyIndices, ai, human)
  ELSE IF diff = "hard"
    THEN LET result == getOptimalMove(b, ai, human)
         IN [moves |-> {result.index}, board |-> result.board]
  ELSE [moves |-> getRandomMove(emptyIndices), board |-> b]

getBestAIMove(b, diff, ai, human) ==
  LET emptyIndices == getEmptyIndices(b) IN
  IF Len(emptyIndices) = 0 THEN [moves |-> {NoIndex}, board |-> b]
  ELSE IF diff = "easy" THEN [moves |-> getRandomMove(emptyIndices), board |-> b]
  ELSE IF diff = "medium" THEN getStrategicMove(b, emptyIndices, ai, human)
  ELSE IF diff = "hard"
    THEN LET result == getOptimalMove(b, ai, human)
         IN [moves |-> {result.index}, board |-> result.board]
  ELSE [moves |-> getRandomMove(emptyIndices), board |-> b]

(***************************************************************************)
(* Steps of the handlers.                                                  *)
(***************************************************************************)
otherPlayer(p) == IF p = PLAYER_X THEN PLAYER_O ELSE PLAYER_X

\* faulty variant: the mark is placed and the counter left as it was
makeMove_NoCount(b, count, index, player) ==
  IF index \notin 0..8 \/ b[index] # Null
    THEN [board |-> b, moveCount |-> count]
    ELSE [board |-> [b EXCEPT ![index] = player], moveCount |-> count]

\* makeMove: [board, moveCount] after the call; an index out of range or an
\* occupied cell is refused
makeMove(b, count, index, player) ==
  IF index \notin 0..8 \/ b[index] # Null
    THEN [board |-> b, moveCount |-> count]
    ELSE [board |-> [b EXCEPT ![index] = player], moveCount |-> count + 1]

\* faulty variant: the two win states are exchanged
endGame_StatesExchanged(sc, isDraw, winner) ==
  IF isDraw THEN [gameState |-> DRAW, scores |-> [sc EXCEPT !.d = @ + 1]]
  ELSE IF winner = PLAYER_X THEN [gameState |-> O_WINS, scores |-> [sc EXCEPT !.x = @ + 1]]
  ELSE [gameState |-> X_WINS, scores |-> [sc EXCEPT !.o = @ + 1]]

\* faulty variant: a win is counted as a draw as well
endGame_WinAlsoDraw(sc, isDraw, winner) ==
  IF isDraw THEN [gameState |-> DRAW, scores |-> [sc EXCEPT !.d = @ + 1]]
  ELSE IF winner = PLAYER_X THEN [gameState |-> X_WINS, scores |-> [sc EXCEPT !.x = @ + 1, !.d = @ + 1]]
  ELSE [gameState |-> O_WINS, scores |-> [sc EXCEPT !.o = @ + 1, !.d = @ + 1]]

\* endGame: [gameState, scores] after the call
endGame(sc, isDraw, winner) ==
  IF isDraw THEN [gameState |-> DRAW, scores |-> [sc EXCEPT !.d = @ + 1]]
  ELSE IF winner = PLAYER_X THEN [gameState |-> X_WINS, scores |-> [sc EXCEPT !.x = @ + 1]]
  ELSE [gameState |-> O_WINS, scores |-> [sc EXCEPT !.o = @ + 1]]

\* faulty variant: no callback is registered
scheduleAIMove_Never(gs, cur, ai, pending) == pending

\* scheduleAIMove: the number of pending callbacks after the call
scheduleAIMove(gs, cur, ai, pending) ==
  IF gs # PLAYING \/ cur # ai THEN pending ELSE pending + 1

ScoresInBound(sc) == sc.x <= MaxScore /\ sc.o <= MaxScore /\ sc.d <= MaxScore

\* what handlePlayerInput and makeAIMove do once the mark is on the board
AfterMove(m, player, pending, isHuman) ==
  /\ board' = m.board
  /\ moveCount' = m.moveCount
  /\ IF checkForWin(player, m.board)
       THEN LET e == endGame(scores, FALSE, player) IN
            /\ gameState' = e.gameState
            /\ scores' = e.scores
            /\ UNCHANGED currentPlayer
            /\ timers' = pending
     ELSE IF checkForDraw(m.board)
       THEN LET e == endGame(scores, TRUE, Null) IN
            /\ gameState' = e.gameState
            /\ scores' = e.scores
            /\ UNCHANGED currentPlayer
            /\ timers' = pending
     ELSE /\ currentPlayer' = otherPlayer(currentPlayer)
          /\ UNCHANGED <<gameState, scores>>
          /\ timers' = IF isHuman
                         THEN scheduleAIMove(gameState, otherPlayer(currentPlayer),
                                             aiPlayer, pending)
                         ELSE pending
  /\ ScoresInBound(scores')
  /\ timers' <= MaxTimers
  /\ UNCHANGED <<humanPlayer, aiPlayer, difficulty>>

(***************************************************************************)
(* Actions: one per handler.                                               *)
(***************************************************************************)
\* parseInt(cell.dataset.index) of the clicked cell; -1 and 9 stand for the
\* indices outside the board that handlePlayerInput tests for
CellInputs == (-1)..9

HandleDifficultyChange(selectedDifficulty) ==
  /\ difficulty' = IF selectedDifficulty # difficulty THEN selectedDifficulty ELSE difficulty
  /\ UNCHANGED <<board, moveCount, currentPlayer, gameState, humanPlayer, aiPlayer,
                 scores, timers>>

\* faulty variant: the turn is not given back to X
startNewRound_KeepsTurn(ai) ==
  /\ gameState' = PLAYING
  /\ currentPlayer' = currentPlayer
  /\ board' = EmptyBoard
  /\ moveCount' = 0
  /\ timers' = scheduleAIMove(PLAYING, currentPlayer, ai, timers)
  /\ timers' <= MaxTimers

\* faulty variant: a callback is registered whoever plays X
startNewRound_AlwaysSchedules(ai) ==
  /\ gameState' = PLAYING
  /\ currentPlayer' = PLAYER_X
  /\ board' = EmptyBoard
  /\ moveCount' = 0
  /\ timers' = timers + 1
  /\ timers' <= MaxTimers

\* startNewRound as a step of the state with the marks given
startNewRound(ai) ==
  /\ gameState' = PLAYING
  /\ currentPlayer' = PLAYER_X
  /\ board' = EmptyBoard
  /\ moveCount' = 0
  /\ timers' = scheduleAIMove(PLAYING, PLAYER_X, ai, timers)
  /\ timers' <= MaxTimers

StartNewRound ==
  /\ startNewRound(aiPlayer)
  /\ UNCHANGED <<humanPlayer, aiPlayer, difficulty, scores>>

\* faulty variant: the test for marks on the board is missing
HandleHumanPlayerChange_NoMovesCheck(selectedPlayer) ==
  IF selectedPlayer # humanPlayer
    THEN /\ humanPlayer' = selectedPlayer
         /\ aiPlayer' = (IF selectedPlayer = PLAYER_X THEN PLAYER_O ELSE PLAYER_X)
         /\ startNewRound(aiPlayer')
         /\ UNCHANGED <<difficulty, scores>>
    ELSE UNCHANGED vars

HandleHumanPlayerChange(selectedPlayer) ==
  LET hasMovesBeenMade == \E i \in 0..8 : board[i] # Null IN
  IF hasMovesBeenMade THEN UNCHANGED vars
  ELSE IF selectedPlayer # humanPlayer
    THEN /\ humanPlayer' = selectedPlayer
         /\ aiPlayer' = (IF selectedPlayer = PLAYER_X THEN PLAYER_O ELSE PLAYER_X)
         /\ startNewRound(aiPlayer')
         /\ UNCHANGED <<difficulty, scores>>
    ELSE UNCHANGED vars

\* faulty variant: the test of whose turn it is is missing
HandlePlayerInput_NoTurnCheck(cellIndex) ==
  IF gameState # PLAYING THEN UNCHANGED vars
  ELSE IF cellIndex < 0 \/ cellIndex > 8 THEN UNCHANGED vars
  ELSE IF board[cellIndex] # Null THEN UNCHANGED vars
  ELSE AfterMove(makeMove(board, moveCount, cellIndex, humanPlayer), humanPlayer,
                 timers, TRUE)

HandlePlayerInput(cellIndex) ==
  IF gameState # PLAYING THEN UNCHANGED vars
  ELSE IF cellIndex < 0 \/ cellIndex > 8 THEN UNCHANGED vars
  ELSE IF currentPlayer # humanPlayer THEN UNCHANGED vars
  ELSE IF board[cellIndex] # Null THEN UNCHANGED vars
  ELSE AfterMove(makeMove(board, moveCount, cellIndex, humanPlayer), humanPlayer,
                 timers, TRUE)

\* faulty variant: the callback does not test gameState and the turn
MakeAIMove_NoGuard ==
  /\ timers > 0
  /\ LET best == getBestAIMove(board, difficulty, aiPlayer, humanPlayer) IN
     \E bestMove \in best.moves :
       IF bestMove = NoIndex
         THEN /\ timers' = timers - 1
              /\ board' = best.board
              /\ UNCHANGED <<moveCount, currentPlayer, gameState, humanPlayer,
                             aiPlayer, difficulty, scores>>
         ELSE AfterMove(makeMove(best.board, moveCount, bestMove, aiPlayer),
                        aiPlayer, timers - 1, FALSE)

\* a pending setTimeout callback runs makeAIMove
MakeAIMove ==
  /\ timers > 0
  /\ IF gameState # PLAYING \/ currentPlayer # aiPlayer
       THEN /\ timers' = timers - 1
            /\ UNCHANGED <<board, moveCount, currentPlayer, gameState, humanPlayer,
                           aiPlayer, difficulty, scores>>
       ELSE LET best == getBestAIMove(board, difficulty, aiPlayer, humanPlayer) IN
            \E bestMove \in best.moves :
              IF bestMove = NoIndex
                THEN /\ timers' = timers - 1
                     /\ board' = best.board
                     /\ UNCHANGED <<moveCount, currentPlayer, gameState, humanPlayer,
                                    aiPlayer, difficulty, scores>>
                ELSE AfterMove(makeMove(best.board, moveCount, bestMove, aiPlayer),
                               aiPlayer, timers - 1, FALSE)

ResetScores ==
  /\ scores' = [x |-> 0, o |-> 0, d |-> 0]
  /\ UNCHANGED <<board, moveCount, currentPlayer, gameState, humanPlayer, aiPlayer,
                 difficulty, timers>>

(***************************************************************************)
(* The program: the state the constructor leaves (initializeState, then    *)
(* init's startNewRound with the human on X) and every handler.            *)
(***************************************************************************)
Init ==
  /\ board = EmptyBoard
  /\ moveCount = 0
  /\ currentPlayer = PLAYER_X
  /\ gameState = PLAYING
  /\ humanPlayer = PLAYER_X
  /\ aiPlayer = PLAYER_O
  /\ difficulty = "easy"
  /\ scores = [x |-> 0, o |-> 0, d |-> 0]
  /\ timers = 0

Next ==
  \/ \E d \in Difficulties : HandleDifficultyChange(d)
  \/ \E p \in {PLAYER_X, PLAYER_O} : HandleHumanPlayerChange(p)
  \/ StartNewRound
  \/ \E i \in CellInputs : HandlePlayerInput(i)
  \/ MakeAIMove
  \/ ResetScores

Spec == Init /\ [][Next]_vars

(***************************************************************************)
(* One round from a fresh board, after the difficulty and mark radios were *)
(* set: the human on X, or the human on O with the engine's opening move   *)
(* scheduled by handleHumanPlayerChange's startNewRound.                   *)
(***************************************************************************)
InitRound(diffs, humans) ==
  /\ board = EmptyBoard
  /\ moveCount = 0
  /\ currentPlayer = PLAYER_X
  /\ gameState = PLAYING
  /\ humanPlayer \in humans
  /\ aiPlayer = otherPlayer(humanPlayer)
  /\ difficulty \in diffs
  /\ scores = [x |-> 0, o |-> 0, d |-> 0]
  /\ timers = scheduleAIMove(PLAYING, PLAYER_X, aiPlayer, 0)

NextRound ==
  \/ \E i \in CellInputs : HandlePlayerInput(i)
  \/ MakeAIMove

\* a round in which the difficulty may change at any time
InitPlay == InitRound(Difficulties, {PLAYER_X, PLAYER_O})

NextPlay ==
  \/ \E d \in Difficulties : HandleDifficultyChange(d)
  \/ \E i \in CellInputs : HandlePlayerInput(i)
  \/ MakeAIMove

SpecPlay == InitPlay /\ [][NextPlay]_vars

\* the session of a user who leaves the difficulty radio on easy: every other
\* handler, so rounds are restarted while callbacks are pending
NextCasual ==
  \/ \E p \in {PLAYER_X, PLAYER_O} : HandleHumanPlayerChange(p)
  \/ StartNewRound
  \/ \E i \in CellInputs : HandlePlayerInput(i)
  \/ MakeAIMove
  \/ ResetScores

SpecCasual == Init /\ [][NextCasual]_vars

(***************************************************************************)
(* Scheduling.  The browser runs every pending setTimeout callback after   *)
(* its delay: weak fairness of makeAIMove.  A callback is pending exactly  *)
(* when timers > 0, and makeAIMove is the only step that takes one off, so *)
(* WF_vars(MakeAIMove) is written out with these two state functions.      *)
(***************************************************************************)
TimersFire == []<>(timers = 0) \/ []<><<timers' < timers>>_vars

\* the human's click on an empty cell when it is their turn
HumanMove == \E i \in 0..8 : HandlePlayerInput(i)

\* one game in which the unfinished round may be restarted (New Game button)
\* and the mark radio may be used, every pending callback eventually running
NextGame ==
  \/ \E d \in Difficulties : HandleDifficultyChange(d)
  \/ \E p \in {PLAYER_X, PLAYER_O} : HandleHumanPlayerChange(p)
  \/ gameState = PLAYING /\ StartNewRound
  \/ \E i \in CellInputs : HandlePlayerInput(i)
  \/ MakeAIMove

SpecGameFair == InitPlay /\ [][NextGame]_vars /\ TimersFire

\* one round that is not restarted, every pending callback eventually running
\* and the human eventually playing an empty cell when it is their turn
SpecRoundFair == InitPlay /\ [][NextPlay]_vars /\ TimersFire /\ WF_vars(HumanMove)

\* a round played under Expert throughout, either side moving first
InitExpert == InitRound({"hard"}, {PLAYER_X, PLAYER_O})

SpecExpert == InitExpert /\ [][NextRound]_vars

\* a round played under Strategic throughout, the human moving first
InitStrategic == InitRound({"medium"}, {PLAYER_X})

SpecStrategic == InitStrategic /\ [][NextRound]_vars

(***************************************************************************)
(* getBestAIMove as a function of the array it reads: the array is drawn   *)
(* from nine-cell arrays with one cell holding a value that is neither     *)
(* null nor a mark, and makeAIMove is applied to it.  The running program  *)
(* never holds such an array: the constructor fills it with nulls and only *)
(* makeMove, fill(null) and the policies write to it.                      *)
(***************************************************************************)
Invalid == "?"

MalformedBoards == {[EmptyBoard EXCEPT ![i] = Invalid] : i \in 0..8}

InitMalformed ==
  /\ board \in MalformedBoards
  /\ moveCount = 0
  /\ currentPlayer = PLAYER_X
  /\ gameState = PLAYING
  /\ humanPlayer \in {PLAYER_X, PLAYER_O}
  /\ aiPlayer = otherPlayer(humanPlayer)
  /\ difficulty \in Difficulties
  /\ scores = [x |-> 0, o |-> 0, d |-> 0]
  /\ timers = scheduleAIMove(PLAYING, PLAYER_X, aiPlayer, 0)

SpecMalformed == InitMalformed /\ [][NextRound]_vars

(***************************************************************************)
(* A round under Expert in which the human answers with a minimax-optimal  *)
(* move: a cell whose value, by the search run from the human's side       *)
(* (the two marks exchanged), equals the value of the board.               *)
(***************************************************************************)
OptimalInputs(b) ==
  LET best == minimax(b, humanPlayer, TRUE, 0, -Infinity, Infinity, humanPlayer, aiPlayer).score
  IN {i \in 0..8 :
        /\ b[i] = Null
        /\ minimax([b EXCEPT ![i] = humanPlayer], aiPlayer, FALSE, 1, -Infinity, Infinity,
                   humanPlayer, aiPlayer).score = best}

NextOptimal ==
  \/ /\ gameState = PLAYING
     /\ currentPlayer = humanPlayer
     /\ \E i \in OptimalInputs(board) : HandlePlayerInput(i)
  \/ MakeAIMove

SpecOptimal == InitExpert /\ [][NextOptimal]_vars

(***************************************************************************)
(* Vocabulary of the properties below.                                     *)
(***************************************************************************)
EngineToMove == gameState = PLAYING /\ currentPlayer = aiPlayer

HumanWinState == IF humanPlayer = PLAYER_X THEN X_WINS ELSE O_WINS

EmptyCells(b) == {i \in 0..8 : b[i] = Null}

\* line c of the table holds two marks of p and one empty cell
TwoAndEmpty(b, c, p) ==
  \E e \in 1..3 :
    /\ b[WINNING_COMBINATIONS[c][e]] = Null
    /\ \A k \in (1..3) \ {e} : b[WINNING_COMBINATIONS[c][k]] = p

OpenLines(b, p) == {c \in 1..8 : TwoAndEmpty(b, c, p)}

\* the empty cell of line c
EmptyCellOf(b, c) ==
  CHOOSE i \in 0..8 : b[i] = Null /\ \E k \in 1..3 : WINNING_COMBINATIONS[c][k] = i

\* the empty cell of the first line, in table order, that p can complete
FirstOpenCell(b, p) ==
  EmptyCellOf(b, CHOOSE c \in OpenLines(b, p) : \A c2 \in OpenLines(b, p) : c <= c2)

\* the cells on which p completes a line
CompletingCells(b, p) == {EmptyCellOf(b, c) : c \in OpenLines(b, p)}

LowestEmpty(b) == CHOOSE i \in EmptyCells(b) : \A j \in EmptyCells(b) : i <= j

Strategic(b) == getStrategicMove(b, getEmptyIndices(b), aiPlayer, humanPlayer)

Optimal(b) == getOptimalMove(b, aiPlayer, humanPlayer)

(***************************************************************************)
(* C1: in a round whose engine moves are all chosen under hard, whichever  *)
(* side moves first and whatever the human plays, gameState never becomes  *)
(* the human's win state.  (SpecExpert)                                    *)
(***************************************************************************)
C1_ExpertNeverLoses == gameState # HumanWinState

\* a round the engine opened under hard has ended with all nine cells played
C1_Witness ==
  /\ difficulty = "hard"
  /\ aiPlayer = PLAYER_X
  /\ gameState = DRAW
  /\ moveCount = 9

(***************************************************************************)
(* C2 as claimed: in a human-first round whose engine moves are all chosen *)
(* by the Strategic cascade, the round never ends in a human win.          *)
(* (SpecStrategic)                                                         *)
(***************************************************************************)
C2_StrategicNeverLoses == gameState # HumanWinState

\* the first three marks of the round fill one diagonal
DiagonalOpening ==
  /\ moveCount = 3
  /\ \/ \A i \in {0, 4, 8} : board[i] # Null
     \/ \A i \in {2, 4, 6} : board[i] # Null

(***************************************************************************)
(* C2 amended: in a human-first Strategic round the human can win only if  *)
(* the first three marks of the round (human, engine, human) fill one      *)
(* diagonal; after any other first three marks the round never ends in a   *)
(* human win.                                                              *)
(***************************************************************************)
C2_LosesOnlyAfterDiagonalOpening ==
  []((moveCount = 3 /\ ~DiagonalOpening) => [](gameState # HumanWinState))

\* a human-first Strategic round has ended with neither diagonal filled, so it
\* did not open on one
C2_Witness ==
  /\ difficulty = "medium"
  /\ humanPlayer = PLAYER_X
  /\ gameState # PLAYING
  /\ moveCount >= 3
  /\ \E i \in {0, 4, 8} : board[i] = Null
  /\ \E i \in {2, 4, 6} : board[i] = Null

(***************************************************************************)
(* C3: for every difficulty and every random outcome, on every board on    *)
(* which the engine is to move (an empty cell, no completed line)          *)
(* getBestAIMove returns the index of a cell that is empty on that board.  *)
(* (SpecPlay)                                                              *)
(***************************************************************************)
C3_ReturnsEmptyCell ==
  EngineToMove =>
    LET best == getBestAIMove(board, difficulty, aiPlayer, humanPlayer) IN
    /\ best.moves # {}
    /\ best.moves \subseteq EmptyCells(board)

\* the Strategic cascade is asked on a board where its win rule fires
C3_Witness ==
  /\ EngineToMove
  /\ difficulty = "medium"
  /\ OpenLines(board, aiPlayer) # {}
  /\ getBestAIMove(board, difficulty, aiPlayer, humanPlayer).moves \subseteq EmptyCells(board)

(***************************************************************************)
(* C4: on every board on which the engine is to move and has a line with   *)
(* two of its marks and one empty cell, getOptimalMove returns a cell that *)
(* completes an engine line on this move, also when another cell leads to  *)
(* a forced engine win later.  (SpecPlay)                                  *)
(***************************************************************************)
C4_SearchTakesWin ==
  (EngineToMove /\ difficulty = "hard" /\ OpenLines(board, aiPlayer) # {}) =>
    Optimal(board).index \in CompletingCells(board, aiPlayer)

\* a cell below the chosen one does not complete a line but still forces a win
C4_Witness ==
  /\ EngineToMove
  /\ difficulty = "hard"
  /\ OpenLines(board, aiPlayer) # {}
  /\ Optimal(board).index \in CompletingCells(board, aiPlayer)
  /\ \E i \in EmptyCells(board) \ CompletingCells(board, aiPlayer) :
       /\ i < Optimal(board).index
       /\ minimaxV3([board EXCEPT ![i] = aiPlayer], humanPlayer, FALSE, 1,
                    aiPlayer, humanPlayer).score > 0

(***************************************************************************)
(* C5: on every board on which the engine is to move and has a line with   *)
(* exactly two of its marks and one empty cell, getStrategicMove returns   *)
(* the empty cell of the first such line in table order, whatever line the *)
(* opponent could complete.  (SpecPlay)                                    *)
(***************************************************************************)
C5_StrategicTakesFirstWin ==
  (EngineToMove /\ difficulty = "medium" /\ OpenLines(board, aiPlayer) # {}) =>
    Strategic(board).moves = {FirstOpenCell(board, aiPlayer)}

\* both sides can complete a line, on different cells, and the engine takes its own
C5_Witness ==
  /\ EngineToMove
  /\ difficulty = "medium"
  /\ OpenLines(board, aiPlayer) # {}
  /\ OpenLines(board, humanPlayer) # {}
  /\ FirstOpenCell(board, humanPlayer) # FirstOpenCell(board, aiPlayer)
  /\ Strategic(board).moves = {FirstOpenCell(board, aiPlayer)}

(***************************************************************************)
(* C6: on every board on which the engine is to move and has no line it    *)
(* can complete while the opponent has a line with two marks and one empty *)
(* cell, getStrategicMove returns the empty cell of the first such         *)
(* opponent line in table order.  (SpecPlay)                               *)
(***************************************************************************)
C6_StrategicBlocksFirstThreat ==
  (/\ EngineToMove
   /\ difficulty = "medium"
   /\ OpenLines(board, aiPlayer) = {}
   /\ OpenLines(board, humanPlayer) # {}) =>
    Strategic(board).moves = {FirstOpenCell(board, humanPlayer)}

\* the opponent threatens on two different cells and the first line's cell is taken
C6_Witness ==
  /\ EngineToMove
  /\ difficulty = "medium"
  /\ OpenLines(board, aiPlayer) = {}
  /\ Cardinality(CompletingCells(board, humanPlayer)) >= 2
  /\ Strategic(board).moves = {FirstOpenCell(board, humanPlayer)}

(***************************************************************************)
(* C7 as claimed: on every board on which the engine is to move, the       *)
(* opponent can complete a line on their next move and the engine cannot   *)
(* complete one, getOptimalMove returns a blocking cell: the empty cell of *)
(* a line that holds two opponent marks.  (SpecPlay)                       *)
(***************************************************************************)
C7_SearchBlocks ==
  (/\ EngineToMove
   /\ difficulty = "hard"
   /\ OpenLines(board, aiPlayer) = {}
   /\ OpenLines(board, humanPlayer) # {}) =>
    Optimal(board).index \in CompletingCells(board, humanPlayer)

(***************************************************************************)
(* C7 amended: on such a board getOptimalMove returns the blocking cell    *)
(* when the opponent can complete a line on exactly one cell; when the     *)
(* opponent can complete lines on two or more cells, every move loses in   *)
(* two plies and it returns the lowest-index empty cell, blocking or not.  *)
(***************************************************************************)
C7_SearchBlocksSingleThreat ==
  (/\ EngineToMove
   /\ difficulty = "hard"
   /\ OpenLines(board, aiPlayer) = {}
   /\ OpenLines(board, humanPlayer) # {}) =>
    IF Cardinality(CompletingCells(board, humanPlayer)) = 1
      THEN {Optimal(board).index} = CompletingCells(board, humanPlayer)
      ELSE Optimal(board).index = LowestEmpty(board)

\* two threats: the lowest-index empty cell is returned although it blocks neither
C7_Witness ==
  /\ EngineToMove
  /\ difficulty = "hard"
  /\ OpenLines(board, aiPlayer) = {}
  /\ Cardinality(CompletingCells(board, humanPlayer)) >= 2
  /\ LowestEmpty(board) \notin CompletingCells(board, humanPlayer)
  /\ Optimal(board).index = LowestEmpty(board)

(***************************************************************************)
(* C8: on every board on which the engine is to move, the alpha-beta       *)
(* minimax of getOptimalMove returns the same root index and the same root *)
(* score as the unpruned v3.0 minimax, whose tie-break is the lowest-index *)
(* cell reaching the optimal score.  (SpecPlay)                            *)
(***************************************************************************)
C8_PruningKeepsResult ==
  (EngineToMove /\ difficulty = "hard") =>
    LET pruned == Optimal(board)
        full == minimaxV3(board, aiPlayer, TRUE, 0, aiPlayer, humanPlayer)
    IN pruned.index = full.index /\ pruned.score = full.score

\* a tie at the root: a later cell reaches the root score too, and the first is kept
C8_Witness ==
  /\ EngineToMove
  /\ difficulty = "hard"
  /\ moveCount >= 2
  /\ LET pruned == Optimal(board) IN
     /\ pruned.index = minimaxV3(board, aiPlayer, TRUE, 0, aiPlayer, humanPlayer).index
     /\ \E i \in EmptyCells(board) :
          /\ i > pruned.index
          /\ minimaxV3([board EXCEPT ![i] = aiPlayer], humanPlayer, FALSE, 1,
                       aiPlayer, humanPlayer).score = pruned.score

(***************************************************************************)
(* C9: for every difficulty, on every board on which the engine is to      *)
(* move, the board getBestAIMove leaves is cell for cell the board at the  *)
(* call: every tentative mark of findForkMove, findBlockForkMove and       *)
(* minimax is removed on every path.  (SpecPlay)                           *)
(***************************************************************************)
C9_BoardRestored ==
  EngineToMove =>
    getBestAIMove(board, difficulty, aiPlayer, humanPlayer).board = board

\* findBlockForkMove accepts a candidate of its lookahead loop and returns early
C9_Witness ==
  /\ EngineToMove
  /\ difficulty = "medium"
  /\ findWinningMove(board, aiPlayer) = NoIndex
  /\ findWinningMove(board, humanPlayer) = NoIndex
  /\ findForkMove(board, aiPlayer).index = NoIndex
  /\ findForkMove(board, humanPlayer).index = NoIndex
  /\ findBlockForkMove(board, aiPlayer, humanPlayer).index # NoIndex
  /\ getBestAIMove(board, difficulty, aiPlayer, humanPlayer).board = board

(***************************************************************************)
(* C10 as claimed: on the board [X, X, empty, O, O, empty, empty, empty,   *)
(* empty] with engine O and human X, the Strategic and the Expert player   *)
(* both return index 2.  (SpecPlay)                                        *)
(***************************************************************************)
ScenarioBoard ==
  [i \in 0..8 |-> IF i \in {0, 1} THEN PLAYER_X
                  ELSE IF i \in {3, 4} THEN PLAYER_O ELSE Null]

OnScenarioBoard == board = ScenarioBoard /\ humanPlayer = PLAYER_X /\ aiPlayer = PLAYER_O

C10_BothReturnTwo ==
  OnScenarioBoard => (Strategic(board).moves = {2} /\ Optimal(board).index = 2)

(***************************************************************************)
(* C10 amended: on that board both players return index 5, the cell that   *)
(* completes O's line 3-4-5: the engine's own win comes before the block   *)
(* of X's line at index 2.                                                 *)
(***************************************************************************)
C10_BothReturnFive ==
  OnScenarioBoard => (Strategic(board).moves = {5} /\ Optimal(board).index = 5)

\* the board of the scenario, where X threatens at 2 and O can win at 5
C10_Witness ==
  /\ OnScenarioBoard
  /\ 2 \in CompletingCells(board, humanPlayer)
  /\ 5 \in CompletingCells(board, aiPlayer)

(***************************************************************************)
(* C11: on the board whose only mark is the human's X on the center, the   *)
(* Strategic cascade of the engine playing O returns a corner: the set of  *)
(* its possible results is exactly {0, 2, 6, 8}, so never an edge and each *)
(* corner possible.  (SpecPlay)                                            *)
(***************************************************************************)
CenterOnlyBoard == [i \in 0..8 |-> IF i = CENTER THEN PLAYER_X ELSE Null]

OnCenterOnlyBoard ==
  board = CenterOnlyBoard /\ humanPlayer = PLAYER_X /\ aiPlayer = PLAYER_O

C11_CenterAnsweredByCorner ==
  OnCenterOnlyBoard => Strategic(board).moves = Range(CORNERS)

\* the engine is asked under medium right after the human opened on the center,
\* and none of the rules before the corner rule fires
C11_Witness ==
  /\ OnCenterOnlyBoard
  /\ EngineToMove
  /\ difficulty = "medium"
  /\ timers > 0
  /\ findForkMove(board, aiPlayer).index = NoIndex
  /\ findBlockForkMove(board, aiPlayer, humanPlayer).index = NoIndex
  /\ findOppositeCorner(board, humanPlayer) = NoIndex

(***************************************************************************)
(* C12: on the empty board with the engine to move the root score of       *)
(* getOptimalMove's search is exactly 0, and a round in which the engine   *)
(* plays Expert and the human always answers with a minimax-optimal move   *)
(* ends in DRAW: it is never won by either side, and while it is PLAYING   *)
(* the next move is available (the engine's callback is pending, or the    *)
(* human has an optimal cell).  (SpecOptimal)                              *)
(***************************************************************************)
C12_OptimalPlayDraws ==
  /\ (EngineToMove /\ moveCount = 0) => Optimal(board).score = 0
  /\ gameState \in {PLAYING, DRAW}
  /\ gameState = PLAYING =>
       IF currentPlayer = aiPlayer THEN timers > 0 ELSE OptimalInputs(board) # {}

\* a round the engine opened has ended in DRAW with all nine cells played
C12_Witness ==
  /\ aiPlayer = PLAYER_X
  /\ difficulty = "hard"
  /\ gameState = DRAW
  /\ moveCount = 9
  /\ scores.d = 1

(***************************************************************************)
(* C13: in every round where the engine moves first and every engine move  *)
(* is chosen under Expert, the root score that minimax computes at each    *)
(* engine turn is greater than or equal to 0, whatever the human has       *)
(* played.  (SpecExpert)                                                   *)
(***************************************************************************)
C13_RootScoreNonNegative ==
  (EngineToMove /\ aiPlayer = PLAYER_X) => Optimal(board).score >= 0

\* a later engine turn of an engine-first round, after the human has answered
\* twice, where the search finds a forced win
C13_Witness ==
  /\ EngineToMove
  /\ aiPlayer = PLAYER_X
  /\ difficulty = "hard"
  /\ moveCount = 4
  /\ Optimal(board).score > 0

(***************************************************************************)
(* C14: whenever the board has no empty cell, getBestAIMove returns the    *)
(* no-move result, not a cell index, for every difficulty, and a           *)
(* makeAIMove callback that runs on such a board leaves the board,         *)
(* moveCount, the current player, gameState and the scores unchanged.      *)
(* (SpecCasual)                                                            *)
(***************************************************************************)
BoardFull == \A i \in 0..8 : board[i] # Null

C14_FullBoardNoMove ==
  /\ [](BoardFull =>
         \A d \in Difficulties :
           getBestAIMove(board, d, aiPlayer, humanPlayer).moves = {NoIndex})
  /\ [][(BoardFull /\ MakeAIMove) =>
          UNCHANGED <<board, moveCount, currentPlayer, gameState, scores>>]_vars

\* the board is full and a makeAIMove callback of an earlier round is still pending
C14_Witness ==
  /\ BoardFull
  /\ moveCount = 9
  /\ timers > 0
  /\ getBestAIMove(board, difficulty, aiPlayer, humanPlayer).moves = {NoIndex}

(***************************************************************************)
(* C15: whenever the board is terminal (a line is complete or no cell is   *)
(* empty), also when a line is complete and cells are still empty,         *)
(* getBestAIMove returns the no-move result and not a cell index, for      *)
(* easy, medium and hard.  (SpecPlay)                                      *)
(***************************************************************************)
TerminalBoard ==
  \/ checkForWin(PLAYER_X, board)
  \/ checkForWin(PLAYER_O, board)
  \/ BoardFull

C15_TerminalBoardNoMove ==
  TerminalBoard =>
    \A d \in Difficulties :
      getBestAIMove(board, d, aiPlayer, humanPlayer).moves = {NoIndex}

(***************************************************************************)
(* C16: given a malformed board (a number of cells other than 9, or a cell *)
(* holding a value that is neither empty nor a mark), getBestAIMove        *)
(* returns no cell index.  (SpecMalformed)                                 *)
(***************************************************************************)
Malformed(b) ==
  \/ DOMAIN b # 0..8
  \/ \E i \in DOMAIN b : b[i] \notin {Null, PLAYER_X, PLAYER_O}

HasLine(b, p) == \E c \in 1..8 : \A k \in 1..3 : b[WINNING_COMBINATIONS[c][k]] = p

WinStateOf(p) == IF p = PLAYER_X THEN X_WINS ELSE O_WINS

C17_DrawOnlyWithoutLine ==
  /\ gameState = DRAW =>
       (BoardFull /\ ~HasLine(board, PLAYER_X) /\ ~HasLine(board, PLAYER_O))
  /\ \A p \in {PLAYER_X, PLAYER_O} :
       (moveCount = 9 /\ HasLine(board, p)) => gameState = WinStateOf(p)

\* the ninth mark of a round completed a line and the round went to its mover
C17_Witness ==
  /\ moveCount = 9
  /\ BoardFull
  /\ HasLine(board, PLAYER_X)
  /\ gameState = X_WINS
  /\ scores.x = 1
  /\ scores.d = 0

(***************************************************************************)
(* C18: in every reachable state between event handlers, after any         *)
(* sequence of clicks, engine moves, restarts and setting changes, the     *)
(* number of non-empty cells of the board equals moveCount.  (Spec)        *)
(***************************************************************************)
C18_MoveCountIsMarks ==
  Cardinality({i \in 0..8 : board[i] # Null}) = moveCount

\* marks were placed in a round started after an earlier round had ended and
\* the difficulty and mark radios had been changed
C18_Witness ==
  /\ scores.d = 1
  /\ humanPlayer = PLAYER_O
  /\ difficulty = "medium"
  /\ gameState = PLAYING
  /\ moveCount = 3
  /\ Cardinality({i \in 0..8 : board[i] # Null}) = 3

(***************************************************************************)
(* C19: within a round a cell that holds a mark keeps exactly that mark:   *)
(* no human input, engine move or policy evaluation ever empties it or     *)
(* overwrites it with the other mark.  (SpecPlay)                          *)
(***************************************************************************)
C19_MarksStay ==
  [][\A i \in 0..8 : board[i] # Null => board'[i] = board[i]]_vars

\* a round in which the engine moved under medium has all nine marks on the board
C19_Witness ==
  /\ difficulty = "medium"
  /\ moveCount = 9
  /\ BoardFull
  /\ Cardinality({i \in 0..8 : board[i] = aiPlayer}) >= 4

(***************************************************************************)
(* C20: a human cell input places a mark only if gameState is PLAYING, it  *)
(* is the human's turn, the index is in 0..8 and the cell is empty; in     *)
(* every other case the board, moveCount, the current player, gameState    *)
(* and the scores are unchanged and no engine move is scheduled.           *)
(* (SpecPlay)                                                              *)
(***************************************************************************)
InputAccepted(i) ==
  /\ gameState = PLAYING
  /\ currentPlayer = humanPlayer
  /\ i \in 0..8
  /\ board[i] = Null

C20_InputGuard ==
  [][\A i \in CellInputs :
       HandlePlayerInput(i) =>
         IF InputAccepted(i)
           THEN /\ board' = [board EXCEPT ![i] = humanPlayer]
                /\ moveCount' = moveCount + 1
           ELSE UNCHANGED <<board, moveCount, currentPlayer, gameState, scores, timers>>]_vars

\* the human has marks on the board and it is the engine's turn with its callback
\* pending: the round is one where inputs were accepted and are now refused
C20_Witness ==
  /\ gameState = PLAYING
  /\ currentPlayer = aiPlayer
  /\ timers = 1
  /\ moveCount = 3
  /\ Cardinality({i \in 0..8 : board[i] = humanPlayer}) = 2

(***************************************************************************)
(* C21: the human mark and the engine mark are always distinct, and they   *)
(* change only while the board is empty: a mark change requested when any  *)
(* cell is occupied, during a round or after it ended, is rejected and     *)
(* leaves humanPlayer, aiPlayer, the board, the current player and         *)
(* gameState unchanged.  (SpecCasual)                                      *)
(***************************************************************************)
C21_MarksFixedOnceMarked ==
  /\ [](humanPlayer \in {PLAYER_X, PLAYER_O} /\ aiPlayer = otherPlayer(humanPlayer))
  /\ [][(humanPlayer' # humanPlayer \/ aiPlayer' # aiPlayer) => board = EmptyBoard]_vars
  /\ [][\A p \in {PLAYER_X, PLAYER_O} :
          (board # EmptyBoard /\ HandleHumanPlayerChange(p)) =>
            UNCHANGED <<humanPlayer, aiPlayer, board, currentPlayer, gameState>>]_vars

\* the human took O on an empty board, and the round played with it has ended
\* with its marks still on the board
C21_Witness ==
  /\ humanPlayer = PLAYER_O
  /\ aiPlayer = PLAYER_X
  /\ gameState # PLAYING
  /\ moveCount >= 5

(***************************************************************************)
(* C22: changing the difficulty during a round changes only the            *)
(* difficulty (board, moveCount, current player, marks, gameState, scores  *)
(* and pending engine timers are unchanged), and the engine's next move,   *)
(* also one whose timer was pending when the change happened, is chosen by *)
(* the policy of the difficulty in force when the timer fires.  (SpecPlay) *)
(***************************************************************************)
PolicyMoves(d, b) ==
  IF d = "hard" THEN {Optimal(b).index}
  ELSE IF d = "medium" THEN Strategic(b).moves
  ELSE getRandomMove(getEmptyIndices(b))

C22_DifficultyAppliesToNextMove ==
  /\ [][difficulty' # difficulty =>
          UNCHANGED <<board, moveCount, currentPlayer, humanPlayer, aiPlayer,
                      gameState, scores, timers>>]_vars
  /\ [][(EngineToMove /\ board' # board) =>
          \E m \in PolicyMoves(difficulty, board) : board' = [board EXCEPT ![m] = aiPlayer]]_vars

\* the engine's callback is pending under hard on a board where Expert's choice is
\* not the only cell the other two policies can return
C22_Witness ==
  /\ EngineToMove
  /\ timers > 0
  /\ moveCount = 3
  /\ difficulty = "hard"
  /\ PolicyMoves("medium", board) # PolicyMoves("hard", board)
  /\ PolicyMoves("easy", board) # PolicyMoves("hard", board)

(***************************************************************************)
(* C23: for every board with at least one empty cell, the set of indices   *)
(* getRandomMove can return over all random outcomes is exactly the set of *)
(* empty cells; it has no win or block awareness, so it may return a cell  *)
(* other than an available winning or blocking cell.  (SpecPlay)           *)
(***************************************************************************)
C23_CasualReturnsAnyEmptyCell ==
  EmptyCells(board) # {} =>
    getRandomMove(getEmptyIndices(board)) = EmptyCells(board)

\* the engine is to move under easy, can complete a line and must block one, and
\* a cell that does neither is among the possible results
C23_Witness ==
  /\ EngineToMove
  /\ difficulty = "easy"
  /\ OpenLines(board, aiPlayer) # {}
  /\ OpenLines(board, humanPlayer) # {}
  /\ \E i \in getRandomMove(getEmptyIndices(board)) :
       /\ i \notin CompletingCells(board, aiPlayer)
       /\ i \notin CompletingCells(board, humanPlayer)

(***************************************************************************)
(* C24: move selection is deterministic except where randomness is         *)
(* consulted: on the same board with the same marks Expert always returns  *)
(* the same index, and Strategic returns the same index whenever one of    *)
(* rules 1-6 (win, block, fork, block-fork, center, opposite corner)       *)
(* fires; only Casual and the corner, edge and fallback steps of Strategic *)
(* can return different indices on two runs.  The set of possible results  *)
(* has one element in the deterministic cases.  (SpecPlay)                 *)
(***************************************************************************)
RuleOneToSixFires(b) ==
  \/ findWinningMove(b, aiPlayer) # NoIndex
  \/ findWinningMove(b, humanPlayer) # NoIndex
  \/ findForkMove(b, aiPlayer).index # NoIndex
  \/ findBlockForkMove(b, aiPlayer, humanPlayer).index # NoIndex
  \/ b[CENTER] = Null
  \/ findOppositeCorner(b, humanPlayer) # NoIndex

C24_RandomOnlyWhereConsulted ==
  EngineToMove =>
    LET results == getBestAIMove(board, difficulty, aiPlayer, humanPlayer).moves IN
    /\ results # {}
    /\ difficulty = "hard" => Cardinality(results) = 1
    /\ (difficulty = "medium" /\ RuleOneToSixFires(board)) => Cardinality(results) = 1
    /\ Cardinality(results) > 1 =>
         (difficulty = "easy" \/ (difficulty = "medium" /\ ~RuleOneToSixFires(board)))

\* Strategic is asked on a board where only the opposite-corner rule fires, with
\* other corners empty, and it has a single possible result
C24_Witness ==
  /\ EngineToMove
  /\ difficulty = "medium"
  /\ findWinningMove(board, aiPlayer) = NoIndex
  /\ findWinningMove(board, humanPlayer) = NoIndex
  /\ findForkMove(board, aiPlayer).index = NoIndex
  /\ findBlockForkMove(board, aiPlayer, humanPlayer).index = NoIndex
  /\ board[CENTER] # Null
  /\ findOppositeCorner(board, humanPlayer) # NoIndex
  /\ Cardinality({c \in Range(CORNERS) : board[c] = Null}) >= 2
  /\ Cardinality(Strategic(board).moves) = 1

(***************************************************************************)
(* C25: under any interleaving of human clicks, restarts, mark changes and *)
(* engine timer firings, with several timers pending at once and timers    *)
(* left from a previous round, a firing timer places an engine mark only   *)
(* if gameState is PLAYING and it is the engine's turn at that moment, and *)
(* otherwise changes nothing.  So the engine is never to move on an ended  *)
(* round or a full board, and after placing a mark it is not to move       *)
(* again: it never places two marks in a row.  (SpecCasual)                *)
(***************************************************************************)
C25_TimerActsOnlyOnEngineTurn ==
  /\ [][(timers' < timers /\ ~EngineToMove) =>
          UNCHANGED <<board, moveCount, currentPlayer, gameState, scores,
                      humanPlayer, aiPlayer, difficulty>>]_vars
  /\ [][(\E i \in 0..8 : board[i] = Null /\ board'[i] = aiPlayer) =>
          /\ EngineToMove
          /\ timers' = timers - 1
          /\ ~(gameState' = PLAYING /\ currentPlayer' = aiPlayer')]_vars
  /\ [](EngineToMove =>
          /\ ~BoardFull
          /\ ~HasLine(board, PLAYER_X)
          /\ ~HasLine(board, PLAYER_O))

\* it is the human's turn in a running round after the engine has moved, and a
\* callback is still pending: it was scheduled in an earlier round
C25_Witness ==
  /\ gameState = PLAYING
  /\ currentPlayer = humanPlayer
  /\ timers > 0
  /\ moveCount >= 2
  /\ \E i \in 0..8 : board[i] = aiPlayer

(***************************************************************************)
(* C26: in every reachable state the number of X marks minus the number of *)
(* O marks is 0 or 1, and while gameState is PLAYING the current player is *)
(* X exactly when the two counts are equal: X always makes the first move  *)
(* of a round, so the engine opens when the human plays O.  (SpecCasual)   *)
(***************************************************************************)
MarksOf(p) == Cardinality({i \in 0..8 : board[i] = p})

C26_MarksAlternate ==
  /\ MarksOf(PLAYER_X) - MarksOf(PLAYER_O) \in {0, 1}
  /\ gameState = PLAYING =>
       (currentPlayer = PLAYER_X <=> MarksOf(PLAYER_X) = MarksOf(PLAYER_O))

\* the engine holds X and opened a round that was started over an unfinished one;
\* after two marks each it is to move again
C26_Witness ==
  /\ gameState = PLAYING
  /\ aiPlayer = PLAYER_X
  /\ currentPlayer = PLAYER_X
  /\ MarksOf(PLAYER_X) = 2
  /\ MarksOf(PLAYER_O) = 2
  /\ timers = 2

(***************************************************************************)
(* C27: in every reachable state gameState agrees with the board: PLAYING  *)
(* implies no mark has a complete line and at least one cell is empty;     *)
(* X_WINS implies X has a complete line, O_WINS implies O has one, and     *)
(* DRAW implies the board is full with no complete line.  (SpecCasual)     *)
(***************************************************************************)
C27_GameStateAgreesWithBoard ==
  /\ gameState = PLAYING =>
       (~HasLine(board, PLAYER_X) /\ ~HasLine(board, PLAYER_O) /\ ~BoardFull)
  /\ gameState = X_WINS => HasLine(board, PLAYER_X)
  /\ gameState = O_WINS => HasLine(board, PLAYER_O)
  /\ gameState = DRAW =>
       (BoardFull /\ ~HasLine(board, PLAYER_X) /\ ~HasLine(board, PLAYER_O))

\* the engine, holding O, completed a line with cells still empty
C27_Witness ==
  /\ gameState = O_WINS
  /\ aiPlayer = PLAYER_O
  /\ HasLine(board, PLAYER_O)
  /\ ~HasLine(board, PLAYER_X)
  /\ ~BoardFull

(***************************************************************************)
(* C28: whenever gameState is PLAYING and it is the engine's turn, at      *)
(* least one engine timer is pending, and under weak fairness of timer     *)
(* firing the engine's turn eventually ends, by the engine placing a mark  *)
(* or by a restart that gives the human the first move: the game never     *)
(* stalls waiting for the engine.  (SpecGameFair)                          *)
(***************************************************************************)
C28_EngineTurnEnds ==
  /\ [](EngineToMove => timers > 0)
  /\ EngineToMove ~> ~EngineToMove

\* the human has answered the engine's opening and the engine's callback is pending
C28_Witness ==
  /\ EngineToMove
  /\ aiPlayer = PLAYER_X
  /\ moveCount = 2
  /\ timers = 1

(***************************************************************************)
(* C29: if the round is not restarted and the human eventually plays an    *)
(* empty cell whenever it is their turn, then under fair timer firing the  *)
(* round eventually reaches X_WINS, O_WINS or DRAW, and it does so after   *)
(* at most 9 placed marks, whatever the difficulty radio is set to during  *)
(* the round.  (SpecRoundFair)                                             *)
(***************************************************************************)
C29_RoundEnds ==
  /\ [](moveCount <= 9 /\ MarksOf(PLAYER_X) + MarksOf(PLAYER_O) <= 9)
  /\ [](moveCount = 9 => gameState \in {X_WINS, O_WINS, DRAW})
  /\ <>(gameState \in {X_WINS, O_WINS, DRAW})

\* a round that took all nine marks, the last one set by the engine under Expert
C29_Witness ==
  /\ gameState = DRAW
  /\ moveCount = 9
  /\ aiPlayer = PLAYER_X
  /\ difficulty = "hard"

(***************************************************************************)
(* C30: each round that ends increments exactly one of the three score     *)
(* counters by exactly 1, the one matching the outcome, and does so        *)
(* exactly once: once the round has ended, clicks on cells and stale       *)
(* engine timers change no counter, and the counters change again only     *)
(* when a later round ends (or when Reset Scores zeroes them).             *)
(* (SpecCasual)                                                            *)
(***************************************************************************)
C30_OneCounterPerRound ==
  /\ [][(gameState = PLAYING /\ gameState' # PLAYING) =>
          /\ gameState' = X_WINS => scores' = [scores EXCEPT !.x = @ + 1]
          /\ gameState' = O_WINS => scores' = [scores EXCEPT !.o = @ + 1]
          /\ gameState' = DRAW => scores' = [scores EXCEPT !.d = @ + 1]
          /\ HasLine(board', PLAYER_X) => scores'.x = scores.x + 1
          /\ HasLine(board', PLAYER_O) => scores'.o = scores.o + 1]_vars
  /\ [][scores' # scores =>
          \/ gameState = PLAYING /\ gameState' # PLAYING
          \/ scores' = [x |-> 0, o |-> 0, d |-> 0]]_vars
  /\ [][(gameState # PLAYING /\ (timers' < timers \/ board' # board)) =>
          scores' = scores]_vars

\* the human, on X, has won a round while a callback of an abandoned round is
\* still pending, and that win is the only point on the scoreboard
C30_Witness ==
  /\ gameState = X_WINS
  /\ humanPlayer = PLAYER_X
  /\ scores = [x |-> 1, o |-> 0, d |-> 0]
  /\ timers > 0

(***************************************************************************)
(* C31: when the engine has no completable line, the opponent has none,    *)
(* and some empty cell would give the engine two or more lines each with   *)
(* two engine marks and one empty cell, the Strategic player returns the   *)
(* lowest-index such cell.  (SpecPlay)                                     *)
(***************************************************************************)
\* the empty cells on which p would hold two or more lines with two marks and
\* one empty cell
ForkCells(b, p) ==
  {i \in EmptyCells(b) : Cardinality(OpenLines([b EXCEPT ![i] = p], p)) >= 2}

Lowest(S) == CHOOSE i \in S : \A j \in S : i <= j

C31_StrategicTakesLowestFork ==
  (/\ EngineToMove
   /\ difficulty = "medium"
   /\ OpenLines(board, aiPlayer) = {}
   /\ OpenLines(board, humanPlayer) = {}
   /\ ForkCells(board, aiPlayer) # {}) =>
    Strategic(board).moves = {Lowest(ForkCells(board, aiPlayer))}

\* the engine has two fork cells and the lowest empty cell is not one of them
C31_Witness ==
  /\ EngineToMove
  /\ difficulty = "medium"
  /\ OpenLines(board, aiPlayer) = {}
  /\ OpenLines(board, humanPlayer) = {}
  /\ Cardinality(ForkCells(board, aiPlayer)) >= 2
  /\ LowestEmpty(board) \notin ForkCells(board, aiPlayer)

(***************************************************************************)
(* C32: when rules 1-3 (win, block, fork) produce nothing and the opponent *)
(* has a fork cell (an empty cell giving the opponent two or more lines    *)
(* with two of their marks and one empty), the Strategic player returns    *)
(* the lowest-index opponent fork cell, even if the center is empty.       *)
(* (SpecPlay)                                                              *)
(***************************************************************************)
RulesOneToThreeSilent(b) ==
  /\ OpenLines(b, aiPlayer) = {}
  /\ OpenLines(b, humanPlayer) = {}
  /\ ForkCells(b, aiPlayer) = {}

C32_StrategicOccupiesOpponentFork ==
  (/\ EngineToMove
   /\ difficulty = "medium"
   /\ RulesOneToThreeSilent(board)
   /\ ForkCells(board, humanPlayer) # {}) =>
    Strategic(board).moves = {Lowest(ForkCells(board, humanPlayer))}

\* the center is empty and the opponent's lowest fork cell is another cell
C32_Witness ==
  /\ EngineToMove
  /\ difficulty = "medium"
  /\ RulesOneToThreeSilent(board)
  /\ ForkCells(board, humanPlayer) # {}
  /\ board[CENTER] = Null
  /\ Lowest(ForkCells(board, humanPlayer)) # CENTER
  /\ Strategic(board).moves # {CENTER}

(***************************************************************************)
(* C33: when rules 1-3 produce nothing and the opponent has no immediate   *)
(* fork cell, rule 4 returns the lowest-index empty cell c such that       *)
(* placing the engine's mark on c creates an engine line with two marks    *)
(* and one empty cell e and, with the opponent's mark placed on e, the     *)
(* opponent has no fork cell; if no such c exists rule 4 produces nothing  *)
(* and the cascade continues with the center rule.  (SpecPlay)             *)
(***************************************************************************)
\* the board after the engine's mark on c and the opponent's mark on the
\* empty cell of the line the engine then threatens
AfterForcedDefense(b, c) ==
  LET b1 == [b EXCEPT ![c] = aiPlayer]
  IN [b1 EXCEPT ![FirstOpenCell(b1, aiPlayer)] = humanPlayer]

ThreatCells(b) ==
  {c \in EmptyCells(b) : OpenLines([b EXCEPT ![c] = aiPlayer], aiPlayer) # {}}

SafeThreatCells(b) ==
  {c \in ThreatCells(b) : ForkCells(AfterForcedDefense(b, c), humanPlayer) = {}}

RuleFourSecondPhase(b) ==
  /\ RulesOneToThreeSilent(b)
  /\ ForkCells(b, humanPlayer) = {}

C33_ThreatWithoutOpponentFork ==
  (EngineToMove /\ difficulty = "medium" /\ RuleFourSecondPhase(board)) =>
    /\ SafeThreatCells(board) # {} =>
         Strategic(board).moves = {Lowest(SafeThreatCells(board))}
    /\ SafeThreatCells(board) = {} =>
         /\ findBlockForkMove(board, aiPlayer, humanPlayer).index = NoIndex
         /\ board[CENTER] = Null => Strategic(board).moves = {CENTER}
         /\ board[CENTER] # Null => CENTER \notin Strategic(board).moves

\* a lower cell makes a threat but leaves the opponent a fork after the forced
\* defense, and rule 4 returns a higher cell
C33_Witness ==
  /\ EngineToMove
  /\ difficulty = "medium"
  /\ RuleFourSecondPhase(board)
  /\ SafeThreatCells(board) # {}
  /\ \E c \in ThreatCells(board) \ SafeThreatCells(board) :
       c < Lowest(SafeThreatCells(board))

(***************************************************************************)
(* C34: when rules 1-4 produce nothing, the Strategic player returns 4 if  *)
(* the center is empty; otherwise the empty corner opposite a human-held   *)
(* corner, taking the first match in the pair order (0,8), (2,6), (6,2),   *)
(* (8,0); otherwise some empty corner; otherwise some empty edge.  On      *)
(* every board with at least one empty cell one of these steps returns,    *)
(* so the final random fallback over all empty cells is never reached.     *)
(* (SpecPlay)                                                              *)
(***************************************************************************)
RulesOneToFourSilent(b) == RuleFourSecondPhase(b) /\ SafeThreatCells(b) = {}

\* the corners the human holds whose diagonally opposite corner is empty
AnsweredCorners(b) == {c \in {0, 2, 6, 8} : b[c] = humanPlayer /\ b[8 - c] = Null}

EmptyCorners(b) == EmptyCells(b) \cap {0, 2, 6, 8}

EmptyEdges(b) == EmptyCells(b) \cap {1, 3, 5, 7}

\* every way of filling the four corners, the other cells empty
CornerBoards ==
  {[i \in 0..8 |-> IF i \in {0, 2, 6, 8} THEN f[i] ELSE Null] :
     f \in [{0, 2, 6, 8} -> {PLAYER_X, PLAYER_O, Null}]}

C34_PositionalRules ==
  /\ (EngineToMove /\ difficulty = "medium" /\ RulesOneToFourSilent(board)) =>
       LET result == Strategic(board).moves IN
       IF board[CENTER] = Null THEN result = {CENTER}
       ELSE IF AnsweredCorners(board) # {}
         THEN result = {8 - Lowest(AnsweredCorners(board))}
       ELSE IF EmptyCorners(board) # {} THEN result = EmptyCorners(board)
       ELSE EmptyEdges(board) # {} /\ result = EmptyEdges(board)
  /\ EmptyCells(board) # {} =>
       (board[CENTER] = Null \/ EmptyCorners(board) # {} \/ EmptyEdges(board) # {})
  /\ \A b \in CornerBoards :
       findOppositeCorner(b, humanPlayer) =
         IF AnsweredCorners(b) = {} THEN NoIndex ELSE 8 - Lowest(AnsweredCorners(b))

\* the center is taken, the human holds a corner whose opposite is empty, and
\* a lower corner is empty as well: the opposite corner is the result
C34_Witness ==
  /\ EngineToMove
  /\ difficulty = "medium"
  /\ RulesOneToFourSilent(board)
  /\ board[CENTER] # Null
  /\ AnsweredCorners(board) # {}
  /\ \E c \in EmptyCorners(board) : c < 8 - Lowest(AnsweredCorners(board))

(***************************************************************************)
(* C35: for every board on which getOptimalMove can be called, the depth   *)
(* guard of minimax (depth > 8 returns score 0) is never the branch that   *)
(* returns: every recursion ends at a win or a full board first, so        *)
(* removing the guard changes neither the root score nor the root index.   *)
(* (SpecExpert)                                                            *)
(***************************************************************************)
RECURSIVE GuardReturns(_, _, _)
\* some call of the search below board b at depth depth, pruned or not, gets
\* past the win tests and the full-board test and returns at the depth guard
GuardReturns(b, player, depth) ==
  IF HasLine(b, PLAYER_X) \/ HasLine(b, PLAYER_O) \/ EmptyCells(b) = {} THEN FALSE
  ELSE IF minimaxDepthGuard(depth) THEN TRUE
  ELSE \E i \in EmptyCells(b) :
         GuardReturns([b EXCEPT ![i] = player], otherPlayer(player), depth + 1)

C35_DepthGuardNeverReturns ==
  (EngineToMove /\ difficulty = "hard") =>
    /\ ~GuardReturns(board, aiPlayer, 0)
    /\ Cardinality(EmptyCells(board)) <= 9

\* the search is started on the board with the most empty cells it is ever
\* given, so its deepest calls are at depth 9, on full boards
C35_Witness ==
  /\ EngineToMove
  /\ difficulty = "hard"
  /\ Cardinality(EmptyCells(board)) = 9
  /\ ~minimaxDepthGuard(8)
  /\ minimaxDepthGuard(9)

(***************************************************************************)
(* C36: for every non-terminal board on which the engine has no            *)
(* completable line and the opponent has exactly one cell that would       *)
(* complete a line for them, the Search player (getOptimalMove) returns    *)
(* exactly that cell: every other move loses on the opponent's next move   *)
(* (score -8), and a later loss is preferred to an immediate one.          *)
(* (SpecPlay)                                                              *)
(***************************************************************************)
SingleThreat(b) ==
  /\ OpenLines(b, aiPlayer) = {}
  /\ Cardinality(CompletingCells(b, humanPlayer)) = 1

\* the one cell on which the opponent completes a line
ThreatCell(b) == CHOOSE i \in CompletingCells(b, humanPlayer) : TRUE

\* the value the search gives the engine's move on cell i
MoveScore(b, i) ==
  minimax([b EXCEPT ![i] = aiPlayer], humanPlayer, FALSE, 1, -Infinity, Infinity,
          aiPlayer, humanPlayer).score

C36_SearchBlocksTheOnlyThreat ==
  (EngineToMove /\ difficulty = "hard" /\ SingleThreat(board)) =>
    /\ Optimal(board).index = ThreatCell(board)
    /\ Optimal(board).score > -8
    /\ \A i \in EmptyCells(board) \ {ThreatCell(board)} : MoveScore(board, i) = -8

\* the engine loses even after the block, later, and the blocking cell is not
\* the first empty cell
C36_Witness ==
  /\ EngineToMove
  /\ difficulty = "hard"
  /\ SingleThreat(board)
  /\ Optimal(board).score < 0
  /\ Optimal(board).index = ThreatCell(board)
  /\ LowestEmpty(board) # ThreatCell(board)

(***************************************************************************)
(* C37: on the empty board (engine moves first) the Expert player returns  *)
(* index 0: every opening has root score 0 and the first index in          *)
(* ascending scan order reaching the optimal score is kept, because a      *)
(* later cell replaces the best move only with a strictly greater score.   *)
(* (SpecExpert)                                                            *)
(***************************************************************************)
C37_ExpertOpensOnZero ==
  /\ (EngineToMove /\ difficulty = "hard" /\ board = EmptyBoard) =>
       /\ Optimal(board).index = 0
       /\ Optimal(board).score = 0
       /\ \A i \in 0..8 : MoveScore(board, i) = 0
  /\ (difficulty = "hard" /\ aiPlayer = PLAYER_X /\ moveCount >= 1) =>
       board[0] = PLAYER_X

\* the engine, moving first under Expert, has placed its opening mark
C37_Witness ==
  /\ difficulty = "hard"
  /\ aiPlayer = PLAYER_X
  /\ moveCount = 1
  /\ board = [EmptyBoard EXCEPT ![0] = PLAYER_X]

(***************************************************************************)
(* C38: startNewRound, from any state, sets every cell empty, moveCount to *)
(* 0, gameState to PLAYING and the current player to X, schedules an       *)
(* engine move exactly when the engine plays X, and leaves the scores, the *)
(* difficulty and the human/engine mark assignment unchanged.  (Spec)      *)
(***************************************************************************)
\* the state startNewRound leaves, the engine's mark being aiPlayer'
FreshRound ==
  /\ \A i \in 0..8 : board'[i] = Null
  /\ moveCount' = 0
  /\ gameState' = PLAYING
  /\ currentPlayer' = PLAYER_X
  /\ timers' = IF aiPlayer' = PLAYER_X THEN timers + 1 ELSE timers
  /\ scores' = scores
  /\ difficulty' = difficulty

C38_StartNewRoundFrame ==
  /\ [][StartNewRound => (FreshRound /\ humanPlayer' = humanPlayer /\ aiPlayer' = aiPlayer)]_vars
  /\ [][\A p \in {PLAYER_X, PLAYER_O} :
          (HandleHumanPlayerChange(p) /\ humanPlayer' # humanPlayer) =>
            (FreshRound /\ humanPlayer' = p /\ aiPlayer' = otherPlayer(p))]_vars

\* a round was restarted after an ended one, under Expert with the engine on X:
\* the point scored is kept and the engine's opening is scheduled
C38_Witness ==
  /\ board = EmptyBoard
  /\ moveCount = 0
  /\ gameState = PLAYING
  /\ currentPlayer = PLAYER_X
  /\ aiPlayer = PLAYER_X
  /\ difficulty = "hard"
  /\ scores.x + scores.o + scores.d >= 1
  /\ timers >= 1

(***************************************************************************)
(* C39: in every reachable state at most one of the two marks has a        *)
(* complete line, and when a round ends in a win getWinningCombination     *)
(* returns a line of the winning table whose three cells all hold the      *)
(* winner's mark.  (SpecCasual)                                            *)
(***************************************************************************)
Winner == IF gameState = X_WINS THEN PLAYER_X ELSE PLAYER_O

C39_WinningLineIsTheWinners ==
  /\ ~(HasLine(board, PLAYER_X) /\ HasLine(board, PLAYER_O))
  /\ gameState \in {X_WINS, O_WINS} =>
       LET winningCombo == getWinningCombination(board) IN
       /\ \E c \in 1..8 : winningCombo = WINNING_COMBINATIONS[c]
       /\ \A k \in 1..3 : board[winningCombo[k]] = Winner
  /\ gameState \in {PLAYING, DRAW} => getWinningCombination(board) = << >>

\* X has won on the bottom row while the top row, earlier in the table, is empty
C39_Witness ==
  /\ gameState = X_WINS
  /\ getWinningCombination(board) = <<6, 7, 8>>
  /\ \A i \in {0, 1, 2} : board[i] = Null

====
